---- MODULE Spec2Model ----
(***************************************************************************)
(* rscp: the rcp/scp wire protocol, source and sink roles (package rscp). *)
(*                                                                         *)
(* The wire is a sequence of symbols.  A symbol is a string: one byte     *)
(* ("NUL" = \x00, "SOH" = \x01, "STX" = \x02, "LF" = \n, a prefix letter, *)
(* a payload byte) or one whitespace-delimited field of a header line     *)
(* (a mode in octal text, a number in decimal text, a name, a message).   *)
(* The fs calls may fail: a step names at most one call that fails in it  *)
(* (flt), and a run has at most MaxFaults failing steps.  Access control  *)
(* and the umask are not modelled (the process owns every file).          *)
(***************************************************************************)
EXTENDS Integers, Sequences, FiniteSets, TLC

VARIABLES
    role,           \* "sink", "source" or "pipe": which side(s) run the code
    iamRecursive,   \* -r
    preserveAttrs,  \* -p
    targetDir,      \* -d
    toSink,         \* bytes in flight to the sink's opts.in
    toSource,       \* bytes in flight to the source's opts.in
    srcClosed,      \* nothing more will be written to toSink (the sink reads EOF)
    sinkClosed,     \* nothing more will be written to toSource
    fs,             \* the sink's filesystem: path -> node
    faults,         \* failing fs steps still allowed in this run
    peerWrites,     \* units a scripted peer may still write
    sinkPc, sinkStack, sf, sinkRet, sinkLog,
    tree,           \* the source's filesystem and path list
    srcPc, srcStack, cur, srcRet, srcLog,
    calc,           \* one call of a function on its own: its name, input, result
    replay          \* sinking a stream twice: the pass, the stream, fs after pass 1

vars == <<role, iamRecursive, preserveAttrs, targetDir, toSink, toSource,
          srcClosed, sinkClosed, fs, faults, peerWrites,
          sinkPc, sinkStack, sf, sinkRet, sinkLog,
          tree, srcPc, srcStack, cur, srcRet, srcLog, calc, replay>>

sinkVars == <<fs, sinkPc, sinkStack, sf, sinkRet, sinkLog>>
srcVars == <<srcPc, srcStack, cur, srcRet, srcLog>>
(* what no step of sink, source or their peers changes *)
flagVars == <<role, iamRecursive, preserveAttrs, targetDir, tree, calc, replay>>

(***************************** bounds **************************************)
MaxFaults == 1
MaxPeerWrites == 3
MaxSize == 2
CopyBuf == 2
MaxTime == 7
MaxArgs == 2
MaxAckLen == 3

(************************** program constants ******************************)
S_IWUSR == 128
S_IRWXU == 448
S_ISUID == 2048
S_ISGID == 1024
MaxErrLen == 1024
DirScanBatchSize == 256
ModePerm == 511
ModeSetuid == 8388608
ModeSetgid == 4194304

(****************************** integers ***********************************)
Min(a, b) == IF a < b THEN a ELSE b
Range(seq) == {seq[i] : i \in DOMAIN seq}

RECURSIVE BitAnd(_, _)
BitAnd(x, y) ==
    IF x = 0 \/ y = 0 THEN 0
    ELSE (IF x % 2 = 1 /\ y % 2 = 1 THEN 1 ELSE 0) + 2 * BitAnd(x \div 2, y \div 2)

RECURSIVE BitOr(_, _)
BitOr(x, y) ==
    IF x = 0 THEN y
    ELSE IF y = 0 THEN x
    ELSE (IF x % 2 = 1 \/ y % 2 = 1 THEN 1 ELSE 0) + 2 * BitOr(x \div 2, y \div 2)

(* toPosixPerm: the nine permission bits, plus 04000 / 02000 for setuid / setgid *)
toPosixPerm(perm) ==
    LET pp == BitAnd(perm, ModePerm)
        p1 == IF BitAnd(perm, ModeSetuid) # 0 THEN BitOr(pp, S_ISUID) ELSE pp
    IN  IF BitAnd(perm, ModeSetgid) # 0 THEN BitOr(p1, S_ISGID) ELSE p1

(* a faulty variant: toStdPerm without the setgid bit *)
toStdPermNoSetgid(posixPerm) ==
    LET perm == BitAnd(posixPerm, ModePerm)
    IN  IF BitAnd(posixPerm, S_ISUID) # 0 THEN BitOr(perm, ModeSetuid) ELSE perm

(* toStdPerm: the inverse direction; every other bit of posixPerm is dropped *)
toStdPerm(posixPerm) ==
    LET perm == BitAnd(posixPerm, ModePerm)
        p1 == IF BitAnd(posixPerm, S_ISUID) # 0 THEN BitOr(perm, ModeSetuid) ELSE perm
    IN  IF BitAnd(posixPerm, S_ISGID) # 0 THEN BitOr(p1, ModeSetgid) ELSE p1

(************************ formatting and scanning **************************)
Digit == <<"0", "1", "2", "3", "4", "5", "6", "7">>

(* "%04o" of a value below 010000 *)
FmtOct4(n) ==
    Digit[((n \div 512) % 8) + 1] \o Digit[((n \div 64) % 8) + 1]
        \o Digit[((n \div 8) % 8) + 1] \o Digit[(n % 8) + 1]

OctTable == [n \in 0..4095 |-> FmtOct4(n)]
OctTexts == {OctTable[n] : n \in 0..4095}

(* "%d" *)
FmtDec(n) == ToString(n)

DecRange == 0..MaxTime
DecTable == [n \in DecRange |-> FmtDec(n)]
DecTexts == {DecTable[n] : n \in DecRange}

(* the "%o" and "%d" verbs of Sscanf on one field *)
IsOct(s) == s \in OctTexts
RECURSIVE OctInverse(_, _)
OctInverse(lo, hi) ==
    IF lo = hi THEN OctTable[lo] :> lo
    ELSE OctInverse(lo, (lo + hi) \div 2) @@ OctInverse((lo + hi) \div 2 + 1, hi)
OctValue == OctInverse(0, 4095)
ScanOct(s) == OctValue[s]
IsDec(s) == s \in DecTexts
DecValue == [s \in DecTexts |-> CHOOSE n \in DecRange : DecTable[n] = s]
ScanDec(s) == DecValue[s]

(* the characters of the names that cross the wire *)
NameChars ==
    [n \in {"a", "b", "d", "e", "g", "m", "..", "d/x"} |->
        CASE n = ".." -> <<".", ".">>
          [] n = "d/x" -> <<"d", "/", "x">>
          [] OTHER -> <<n>>]

ContainsRune(name, r) ==
    name \in DOMAIN NameChars /\ \E i \in DOMAIN NameChars[name] : NameChars[name][i] = r

(******************************* errors ************************************)
(* an error value: k is "nil", "soft" (a plain error), "fatal" (FatalError)  *)
(* or "acc" (AccError); m is the text of Error(), a sequence of symbols.    *)
NilErr == [k |-> "nil", m |-> <<>>]
SoftErr(m) == [k |-> "soft", m |-> m]
FatalError(m) == [k |-> "fatal", m |-> m]
protocolErr == FatalError(<<"protocol error">>)

isFatal(err) == err.k = "fatal"

RECURSIVE JoinMsgs(_)
JoinMsgs(errs) ==
    IF errs = <<>> THEN <<>>
    ELSE IF Len(errs) = 1 THEN errs[1].m
    ELSE errs[1].m \o <<" ">> \o JoinMsgs(Tail(errs))

(* AccError{errs}; Error() is Sprintln of the members *)
AccError(errs) == [k |-> "acc", m |-> JoinMsgs(errs) \o <<"LF">>]

AccOrNil(errs) == IF Len(errs) > 0 THEN AccError(errs) ELSE NilErr

AppendErr(errs, err) == IF err.k = "nil" THEN errs ELSE Append(errs, err)


(***************************** filesystem **********************************)
(* a node: kind "dir" or "file"; perm in os.FileMode bits; data the bytes  *)
Node(kind, perm, data, mtime, atime) ==
    [kind |-> kind, perm |-> perm, data |-> data, mtime |-> mtime, atime |-> atime]

Exists(f, p) == p \in DOMAIN f
IsDir(f, p) == Exists(f, p) /\ f[p].kind = "dir"
IsRegular(f, p) == Exists(f, p) /\ f[p].kind = "file"
Parent(p) == SubSeq(p, 1, Len(p) - 1)
(* the destination argument itself, <<>>, lies in a directory that exists *)
ParentOk(f, p) == p = <<>> \/ IsDir(f, Parent(p))

(* path.Join(parent, name) for a name that passed parseSubj *)
Join(parent, name) == Append(parent, name)

RECURSIVE PathText(_)
PathText(p) ==
    IF p = <<>> THEN <<"dst">> ELSE PathText(Parent(p)) \o <<"/", p[Len(p)]>>

Put(f, p, node) == (p :> node) @@ f

(* f.Write at the file's offset; the file was opened without O_TRUNC *)
WriteAt(data, off, bytes) ==
    SubSeq(data, 1, off) \o bytes \o SubSeq(data, off + Len(bytes) + 1, Len(data))

(* f.Truncate(size): cut, or extend with zero bytes *)
Resize(data, size) ==
    IF Len(data) >= size THEN SubSeq(data, 1, size)
    ELSE data \o [i \in 1..(size - Len(data)) |-> "NUL"]

NoTimes == [set |-> FALSE, msec |-> 0, musec |-> 0, asec |-> 0, ausec |-> 0]

(* syscall.Utimes(name, {Atime, Mtime}) on an existing node *)
Utimes(f, p, times) == [f EXCEPT ![p].mtime = times.msec, ![p].atime = times.asec]

(************************** protocol primitives ****************************)
(* a world is the state one side's code reads and writes in a step:        *)
(* out, the bytes written to opts.out; gone, whether the peer has closed;  *)
(* hit, whether the failing call of this step has been reached.            *)
Hit(w) == [w EXCEPT !.hit = TRUE]

(* fmt.Fprint(opts.out, ...) *)
WriteOut(w, bytes) ==
    IF w.gone THEN [w |-> w, err |-> FatalError(<<"EPIPE">>)]
    ELSE [w |-> [w EXCEPT !.out = @ \o bytes], err |-> NilErr]

RECURSIVE Flatten(_)
(* strings.Replace(msg, "\n", "; ", -1) *)
(* by halves, so that a message of MaxErrLen bytes nests ten calls deep *)
Flatten(m) ==
    IF m = <<>> THEN <<>>
    ELSE IF Len(m) = 1 THEN (IF m[1] = "LF" THEN <<";", " ">> ELSE m)
    ELSE LET h == Len(m) \div 2
         IN  Flatten(SubSeq(m, 1, h)) \o Flatten(SubSeq(m, h + 1, Len(m)))

(* a faulty variant: the bound of the clamp one byte too wide *)
ClampLate(line) ==
    IF Len(line) > MaxErrLen - 2
    THEN SubSeq(line, 1, MaxErrLen - 6) \o <<".", ".", ".">>
    ELSE line

Clamp(line) ==
    IF Len(line) > MaxErrLen - 3
    THEN SubSeq(line, 1, MaxErrLen - 6) \o <<".", ".", ".">>
    ELSE line

(* sendError: one line, always behind the \x01 marker *)
sendError(w, err) == WriteOut(w, <<"SOH">> \o Clamp(Flatten(err.m)) \o <<"LF">>)

(* teeError: the error itself, or the write's failure *)
teeError(w, err) ==
    LET r == sendError(w, err)
    IN  IF r.err.k # "nil" THEN r ELSE [w |-> r.w, err |-> err]

(* index of the first LF at or after from, 0 if there is none *)
LFPos(s, from) ==
    IF \E i \in from..Len(s) : s[i] = "LF"
    THEN CHOOSE i \in from..Len(s) : s[i] = "LF" /\ \A j \in from..(i - 1) : s[j] # "LF"
    ELSE 0

(* a faulty variant: ack that takes the \x01 answer for a fatal error *)
ackAllFatal(inp, closed) ==
    IF inp = <<>>
    THEN [ready |-> closed, err |-> FatalError(<<"EOF">>), rest |-> inp]
    ELSE IF Head(inp) = "NUL"
    THEN [ready |-> TRUE, err |-> NilErr, rest |-> Tail(inp)]
    ELSE LET n == LFPos(inp, 2)
         IN  IF n = 0
             THEN [ready |-> closed, err |-> FatalError(<<"EOF">>), rest |-> <<>>]
             ELSE [ready |-> TRUE,
                   err |-> CASE Head(inp) \in {"SOH", "STX"} -> FatalError(SubSeq(inp, 2, n - 1))
                             [] OTHER -> protocolErr,
                   rest |-> SubSeq(inp, n + 1, Len(inp))]

(* ack on the input inp: ready is whether the read returns (it blocks on an *)
(* open pipe with no complete answer); rest is what is left unread.         *)
ack(inp, closed) ==
    IF inp = <<>>
    THEN [ready |-> closed, err |-> FatalError(<<"EOF">>), rest |-> inp]
    ELSE IF Head(inp) = "NUL"
    THEN [ready |-> TRUE, err |-> NilErr, rest |-> Tail(inp)]
    ELSE LET n == LFPos(inp, 2)
         IN  IF n = 0
             THEN [ready |-> closed, err |-> FatalError(<<"EOF">>), rest |-> <<>>]
             ELSE [ready |-> TRUE,
                   err |-> CASE Head(inp) = "SOH" -> SoftErr(SubSeq(inp, 2, n - 1))
                             [] Head(inp) = "STX" -> FatalError(SubSeq(inp, 2, n - 1))
                             [] OTHER -> protocolErr,
                   rest |-> SubSeq(inp, n + 1, Len(inp))]

(* parseSubj, its Sscanf "%o %d %s" on the fields of the line *)
scanSubj(line) ==
    IF Len(line) < 3 \/ ~IsOct(line[1]) \/ ~IsDec(line[2])
    THEN [perm |-> 0, size |-> 0, name |-> "", err |-> SoftErr(<<"unexpected EOF">>)]
    ELSE [perm |-> toStdPerm(ScanOct(line[1])), size |-> ScanDec(line[2]),
          name |-> line[3], err |-> NilErr]

(* a faulty variant: parseSubj without its check of the name *)
parseSubjAnyName(line) == scanSubj(line)

(* parseSubj: the scan, then the check of the name *)
parseSubj(line) ==
    LET r == scanSubj(line)
    IN  IF r.err.k = "nil" /\ (r.name = ".." \/ ContainsRune(r.name, "/"))
        THEN [r EXCEPT !.err = FatalError(<<r.name, ": invalid name">>)]
        ELSE r

(******************************** sink *************************************)
(* one level of the sink's call stack: an invocation of sink (path, recur,  *)
(* first, errs, times) and, when it was called by sinkDir, that sinkDir's   *)
(* locals (dperm, dreset = resetPerm, dtimes = its times argument).         *)
Level(path, recur, dperm, dreset, dtimes) ==
    [path |-> path, recur |-> recur, first |-> TRUE, errs |-> <<>>, times |-> NoTimes,
     dperm |-> dperm, dreset |-> dreset, dtimes |-> dtimes]

NoFile ==
    [name |-> <<>>, perm |-> 0, size |-> 0, exists |-> FALSE, regular |-> FALSE,
     times |-> NoTimes, rd |-> 0, wr |-> 0, drain |-> 0, pend |-> <<>>]

SinkWorld ==
    [pc |-> sinkPc, stack |-> sinkStack, sf |-> sf, ret |-> sinkRet, log |-> sinkLog,
     fs |-> fs, out |-> toSource, gone |-> role = "pipe" /\ srcClosed, hit |-> FALSE]

Top(w) == w.stack[Len(w.stack)]

(* a fatal error returns through every caller: sink has returned *)
SinkHalt(w, err) == [w EXCEPT !.pc = "done", !.ret = err, !.stack = <<>>, !.sf = NoFile]

(* the D and C cases of the dispatch loop, after sinkDir or sinkFile returned err *)
SinkResume(w, err) ==
    IF isFatal(err) THEN SinkHalt(w, err)
    ELSE [w EXCEPT !.pc = "loop", !.sf = NoFile,
                   !.stack[Len(w.stack)].errs = AppendErr(@, err),
                   !.stack[Len(w.stack)].times = NoTimes,
                   !.stack[Len(w.stack)].first = FALSE]

(* the other cases that go round the loop *)
SinkContinue(w) == [w EXCEPT !.pc = "loop", !.stack[Len(w.stack)].first = FALSE]

TeeHalt(w, err) == LET r == teeError(w, err) IN SinkHalt(r.w, r.err)

(* a faulty variant: sink without its check of -d *)
SinkBeginUnchecked(w, flt) ==
    LET r == WriteOut(w, <<"NUL">>)
    IN  IF r.err.k # "nil" THEN SinkHalt(r.w, r.err) ELSE [r.w EXCEPT !.pc = "loop"]

(* sink, from its entry to the first read of the loop *)
SinkBegin(w, flt) ==
    LET path == Top(w).path
    IN  IF targetDir /\ (flt = "stat" \/ ~Exists(w.fs, path))
        THEN TeeHalt(IF flt = "stat" THEN Hit(w) ELSE w, FatalError(<<"stat: no such file">>))
        ELSE IF targetDir /\ ~IsDir(w.fs, path)
        THEN TeeHalt(w, FatalError(PathText(path) \o <<": is not a directory">>))
        ELSE LET r == WriteOut(w, <<"NUL">>)
             IN  IF r.err.k # "nil" THEN SinkHalt(r.w, r.err)
                 ELSE [r.w EXCEPT !.pc = "loop"]

(* a faulty variant: prepareDir that takes a directory already there for an error *)
prepareDirNewOnly(w, name, perm, flt) ==
    IF flt = "stat"
    THEN [w |-> Hit(w), resetPerm |-> FALSE, err |-> SoftErr(<<"stat: input/output error">>)]
    ELSE IF Exists(w.fs, name)
    THEN [w |-> w, resetPerm |-> FALSE, err |-> SoftErr(PathText(name) \o <<": file exists">>)]
    ELSE IF flt = "mkdir" \/ ~ParentOk(w.fs, name)
    THEN [w |-> IF flt = "mkdir" THEN Hit(w) ELSE w, resetPerm |-> FALSE,
          err |-> SoftErr(<<"mkdir failed">>)]
    ELSE [w |-> [w EXCEPT !.fs = Put(@, name, Node("dir", BitOr(perm, S_IRWXU), <<>>, 0, 0))],
          resetPerm |-> TRUE, err |-> NilErr]

(* prepareDir: [w, resetPerm, err] *)
prepareDir(w, name, perm, flt) ==
    IF flt = "stat"
    THEN [w |-> Hit(w), resetPerm |-> FALSE, err |-> SoftErr(<<"stat: input/output error">>)]
    ELSE IF Exists(w.fs, name)
    THEN IF ~IsDir(w.fs, name)
         THEN [w |-> w, resetPerm |-> FALSE,
               err |-> SoftErr(PathText(name) \o <<": is not a directory">>)]
         ELSE IF preserveAttrs
         THEN IF flt = "chmod"
              THEN [w |-> Hit(w), resetPerm |-> FALSE, err |-> SoftErr(<<"chmod failed">>)]
              ELSE [w |-> [w EXCEPT !.fs[name].perm = perm], resetPerm |-> FALSE,
                    err |-> NilErr]
         ELSE [w |-> w, resetPerm |-> FALSE, err |-> NilErr]
    ELSE IF flt = "mkdir" \/ ~ParentOk(w.fs, name)
    THEN [w |-> IF flt = "mkdir" THEN Hit(w) ELSE w, resetPerm |-> FALSE,
          err |-> SoftErr(<<"mkdir failed">>)]
    ELSE [w |-> [w EXCEPT !.fs = Put(@, name, Node("dir", BitOr(perm, S_IRWXU), <<>>, 0, 0))],
          resetPerm |-> TRUE, err |-> NilErr]

(* sinkDir past its check of -r, to the first read of the sink it calls *)
sinkDirChecked(w, line, times, flt) ==
    LET p == parseSubj(line)
    IN  IF p.err.k # "nil" THEN TeeHalt(w, FatalError(p.err.m))
        ELSE LET name == Join(Top(w).path, p.name)
                 d == prepareDir(w, name, p.perm, flt)
             IN  IF d.err.k # "nil"
                 THEN LET r == teeError(d.w, d.err) IN SinkResume(r.w, r.err)
                 ELSE SinkBegin([d.w EXCEPT !.stack = Append(@,
                                   Level(name, TRUE, p.perm, d.resetPerm, times))], flt)

(* a faulty variant: sinkDir without its check of -r *)
sinkDirEnterAnyway(w, line, times, flt) == sinkDirChecked(w, line, times, flt)

(* sinkDir, from its entry to the first read of the sink it calls *)
sinkDirEnter(w, line, times, flt) ==
    IF ~iamRecursive
    THEN TeeHalt(w, FatalError(<<"received directory without -r flag">>))
    ELSE sinkDirChecked(w, line, times, flt)

(* sinkDir, after the sink it called returned err (not fatal) *)
sinkDirLeave(w, err, flt) ==
    LET lv == Top(w)
        errs == AppendErr(<<>>, err)
        tfail == lv.dtimes.set /\ (flt = "utimes" \/ ~Exists(w.fs, lv.path))
        w1 == IF lv.dtimes.set /\ ~tfail
              THEN [w EXCEPT !.fs = Utimes(@, lv.path, lv.dtimes)]
              ELSE IF lv.dtimes.set /\ flt = "utimes" THEN Hit(w) ELSE w
        cfail == lv.dreset /\ (flt = "chmod" \/ ~Exists(w.fs, lv.path))
        w2 == IF lv.dreset /\ ~cfail
              THEN [w1 EXCEPT !.fs[lv.path].perm = lv.dperm]
              ELSE IF lv.dreset /\ flt = "chmod" THEN Hit(w1) ELSE w1
        pendErrs == (IF tfail THEN <<SoftErr(<<"utimes failed">>)>> ELSE <<>>)
                        \o (IF cfail THEN <<SoftErr(<<"chmod failed">>)>> ELSE <<>>)
        w3 == [w2 EXCEPT !.stack = SubSeq(@, 1, Len(@) - 1)]
        r == IF Len(pendErrs) > 0 THEN sendError(w3, AccError(pendErrs))
             ELSE [w |-> w3, err |-> NilErr]
    IN  IF r.err.k # "nil" THEN SinkHalt(r.w, r.err)
        ELSE SinkResume(r.w, AccOrNil(errs \o pendErrs))

(* a faulty variant: the end of the input at a prefix byte taken for an error *)
sinkReturnAsFatal(w, flt) == SinkHalt(w, FatalError(<<"EOF">>))

(* the end of the dispatch loop: sink returns to Main or to sinkDir *)
sinkReturn(w, flt) ==
    LET err == AccOrNil(Top(w).errs)
    IN  IF Len(w.stack) = 1
        THEN [w EXCEPT !.pc = "done", !.ret = err, !.stack = <<>>]
        ELSE sinkDirLeave(w, err, flt)

(* a faulty variant: sinkFile never truncates *)
needsTruncateNever(f) == FALSE

(* sinkFile: whether f.Truncate(size) is called *)
needsTruncate(f) == ~f.exists \/ f.regular

(* sinkFile, after the copy: truncate, sync, chmod, utimes; then it waits for *)
(* the peer's trailer                                                          *)
sinkFileFinish(w, flt) ==
    LET f == w.sf
        trunc == needsTruncate(f)
        w1 == IF trunc /\ flt = "truncate" THEN Hit(w)
              ELSE IF trunc THEN [w EXCEPT !.fs[f.name].data = Resize(@, f.size)]
              ELSE w
        w2 == IF flt = "sync" THEN Hit(w1) ELSE w1
        chm == preserveAttrs \/ ~f.exists
        w3 == IF chm /\ flt = "chmod" THEN Hit(w2)
              ELSE IF chm THEN [w2 EXCEPT !.fs[f.name].perm = f.perm]
              ELSE w2
        w4 == IF f.times.set /\ flt = "utimes" THEN Hit(w3)
              ELSE IF f.times.set THEN [w3 EXCEPT !.fs = Utimes(@, f.name, f.times)]
              ELSE w3
        pendErrs == f.pend
                      \o (IF trunc /\ flt = "truncate" THEN <<SoftErr(<<"truncate failed">>)>> ELSE <<>>)
                      \o (IF flt = "sync" THEN <<SoftErr(<<"sync failed">>)>> ELSE <<>>)
                      \o (IF chm /\ flt = "chmod" THEN <<SoftErr(<<"chmod failed">>)>> ELSE <<>>)
                      \o (IF f.times.set /\ flt = "utimes" THEN <<SoftErr(<<"utimes failed">>)>> ELSE <<>>)
    IN  [w4 EXCEPT !.pc = "trailer", !.sf.pend = pendErrs]

(* sinkFile, from its entry to the first read of the payload *)
sinkFileEnter(w, line, times, flt) ==
    LET p == parseSubj(line)
    IN  IF p.err.k # "nil" THEN TeeHalt(w, FatalError(p.err.m))
        ELSE
        LET path == Top(w).path
            statOk == flt # "stat" /\ Exists(w.fs, path)
            w0 == IF flt = "stat" THEN Hit(w) ELSE w
            name == IF statOk /\ IsDir(w.fs, path) THEN Join(path, p.name) ELSE path
            openFail == flt = "open" \/ IsDir(w.fs, name) \/ ~ParentOk(w.fs, name)
            w1 == IF Exists(w.fs, name) THEN w0
                  ELSE [w0 EXCEPT !.fs = Put(@, name,
                            Node("file", BitOr(p.perm, S_IWUSR), <<>>, 0, 0))]
        IN  IF openFail
            THEN LET r == teeError(IF flt = "open" THEN Hit(w0) ELSE w0,
                                   SoftErr(<<"open failed">>))
                 IN  SinkResume(r.w, r.err)
            ELSE IF flt = "fstat"
            THEN LET r == teeError(Hit(w1), SoftErr(<<"stat failed">>))
                 IN  SinkResume(r.w, r.err)
            ELSE LET r == WriteOut(w1, <<"NUL">>)
                     w2 == [r.w EXCEPT !.pc = "copy",
                               !.sf = [name |-> name, perm |-> p.perm, size |-> p.size,
                                       exists |-> statOk, regular |-> IsRegular(w1.fs, name),
                                       times |-> times, rd |-> 0, wr |-> 0, drain |-> 0,
                                       pend |-> <<>>]]
                 IN  IF r.err.k # "nil" THEN SinkHalt(r.w, r.err)
                     ELSE IF p.size = 0 THEN sinkFileFinish(w2, flt)
                     ELSE w2
(* a faulty variant: the default case without the first-byte message *)
unexpectedErrPlain(first, prefix, line) == protocolErr

(* the default case of the dispatch loop: the error it tees *)
unexpectedErr(first, prefix, line) ==
    IF first THEN FatalError(<<prefix>> \o line) ELSE protocolErr

(* one frame of the dispatch loop: prefix byte and line, up to the handler's *)
(* next read.  The log keeps, per frame, its prefix, whether a D or C was     *)
(* handed times, and the depth and directory it was dispatched in.            *)
sinkDispatch(w, prefix, line, flt) ==
    LET lv == Top(w)
        top == Len(w.stack)
        wl == [w EXCEPT !.log = Append(@, [p |-> prefix, line |-> line,
                                           t |-> lv.times.set /\ prefix \in {"C", "D"},
                                           depth |-> top, path |-> lv.path,
                                           first |-> lv.first])]
    IN  CASE prefix = "SOH" ->
               SinkContinue([wl EXCEPT !.stack[top].errs = Append(@, SoftErr(line))])
          [] prefix = "STX" -> SinkHalt(wl, FatalError(line))
          [] prefix = "E" ->
               IF ~lv.recur THEN TeeHalt(wl, protocolErr)
               ELSE LET r == WriteOut(wl, <<"NUL">>)
                    IN  IF r.err.k # "nil" THEN SinkHalt(r.w, r.err) ELSE SinkContinue(r.w)
          [] prefix = "T" ->
               IF Len(line) < 4 \/ \E i \in 1..4 : ~IsDec(line[i])
               THEN TeeHalt(wl, FatalError(<<"unexpected EOF">>))
               ELSE LET r == WriteOut(
                              [wl EXCEPT !.stack[top].times =
                                  [set |-> TRUE,
                                   msec |-> ScanDec(line[1]), musec |-> ScanDec(line[2]),
                                   asec |-> ScanDec(line[3]), ausec |-> ScanDec(line[4])]],
                              <<"NUL">>)
                    IN  IF r.err.k # "nil" THEN SinkHalt(r.w, r.err) ELSE SinkContinue(r.w)
          [] prefix = "D" -> sinkDirEnter(wl, line, lv.times, flt)
          [] prefix = "C" -> sinkFileEnter(wl, line, lv.times, flt)
          [] OTHER -> TeeHalt(wl, unexpectedErr(lv.first, prefix, line))

(* sinkFile: one round of io.Copy(f, LimitReader(in, size)): bytes were read, *)
(* nw of them were written                                                     *)
sinkFileCopy(w, bytes, nw, flt) ==
    LET f == w.sf
        k == Len(bytes)
        w1 == [w EXCEPT !.fs[f.name].data = WriteAt(@, f.wr, SubSeq(bytes, 1, nw)),
                        !.sf.rd = @ + k, !.sf.wr = @ + nw]
    IN  IF nw < k
        THEN [Hit(w1) EXCEPT !.pc = "drain", !.sf.drain = f.size - (f.wr + nw)]
        ELSE IF f.rd + k = f.size THEN sinkFileFinish(w1, flt)
        ELSE w1

(* sinkFile: io.Copy(ioutil.Discard, LimitReader(in, size-wr)) took k bytes;  *)
(* at its end (the count is reached, or EOF) the copy's error is pending      *)
sinkFileDrain(w, k, eof, flt) ==
    LET w1 == [w EXCEPT !.sf.rd = @ + k, !.sf.drain = @ - k]
    IN  IF eof \/ w1.sf.drain = 0
        THEN sinkFileFinish([w1 EXCEPT !.sf.pend = <<SoftErr(<<"write failed">>)>>], flt)
        ELSE w1

(* a faulty variant: sinkFile answers \x00 whatever has failed *)
sinkFileLeaveSilent(w, ackErr) ==
    IF isFatal(ackErr) THEN SinkHalt(w, ackErr)
    ELSE LET pendErrs == w.sf.pend
             r == WriteOut(w, <<"NUL">>)
         IN  IF r.err.k # "nil" THEN SinkHalt(r.w, r.err)
             ELSE SinkResume(r.w, IF ackErr.k # "nil"
                                  THEN AccError(Append(pendErrs, ackErr))
                                  ELSE AccOrNil(pendErrs))

(* sinkFile, from the peer's trailer to its return *)
sinkFileLeave(w, ackErr) ==
    IF isFatal(ackErr) THEN SinkHalt(w, ackErr)
    ELSE LET pendErrs == w.sf.pend
             r == IF Len(pendErrs) > 0 THEN sendError(w, AccError(pendErrs))
                  ELSE WriteOut(w, <<"NUL">>)
         IN  IF r.err.k # "nil" THEN SinkHalt(r.w, r.err)
             ELSE SinkResume(r.w, IF ackErr.k # "nil"
                                  THEN AccError(Append(pendErrs, ackErr))
                                  ELSE AccOrNil(pendErrs))

(**************************** sink: the steps ******************************)
Faults(sites) == IF faults > 0 THEN {"none"} \cup sites ELSE {"none"}

SetSink(w, flt) ==
    /\ flt = "none" \/ w.hit
    /\ sinkPc' = w.pc
    /\ sinkStack' = w.stack
    /\ sf' = w.sf
    /\ sinkRet' = w.ret
    /\ sinkLog' = w.log
    /\ fs' = w.fs
    /\ toSource' = w.out
    /\ faults' = IF w.hit THEN faults - 1 ELSE faults
    /\ sinkClosed' = IF w.pc = "done" THEN TRUE ELSE sinkClosed

(* sink is called by Main *)
SinkStart ==
    /\ role \in {"sink", "pipe", "resink"}
    /\ sinkPc = "start"
    /\ \E flt \in Faults({"stat"}) : SetSink(SinkBegin(SinkWorld, flt), flt)
    /\ UNCHANGED <<flagVars, toSink, srcClosed, peerWrites, srcVars>>

(* the dispatch loop reads a prefix byte and a line, or the end of the input *)
SinkFrame ==
    /\ role \in {"sink", "pipe", "resink"}
    /\ sinkPc = "loop"
    /\ LET n == LFPos(toSink, 2)
           eof == toSink = <<>>
       IN  /\ IF n = 0 THEN srcClosed ELSE TRUE
           /\ \E flt \in Faults({"stat", "open", "fstat", "mkdir", "chmod",
                                 "truncate", "sync", "utimes"}) :
                SetSink(IF eof THEN sinkReturn(SinkWorld, flt)
                        ELSE IF n = 0 THEN SinkHalt(SinkWorld, FatalError(<<"EOF">>))
                        ELSE sinkDispatch(SinkWorld, Head(toSink),
                                          SubSeq(toSink, 2, n - 1), flt),
                        flt)
           /\ toSink' = IF n = 0 THEN <<>> ELSE SubSeq(toSink, n + 1, Len(toSink))
    /\ UNCHANGED <<flagVars, srcClosed, peerWrites, srcVars>>

(* io.Copy reads up to a buffer of the payload and writes it to the file *)
SinkCopy ==
    /\ role \in {"sink", "pipe", "resink"}
    /\ sinkPc = "copy"
    /\ IF toSink = <<>>
       THEN /\ srcClosed
            /\ \E flt \in Faults({"truncate", "sync", "chmod", "utimes"}) :
                 SetSink(sinkFileFinish(SinkWorld, flt), flt)
            /\ toSink' = toSink
       ELSE \E k \in 1..Min(Min(Len(toSink), sf.size - sf.rd), CopyBuf) :
              \E flt \in Faults({"write", "truncate", "sync", "chmod", "utimes"}) :
                \E nw \in 0..k :
                  /\ (nw < k) <=> (flt = "write")
                  /\ SetSink(sinkFileCopy(SinkWorld, SubSeq(toSink, 1, k), nw, flt), flt)
                  /\ toSink' = SubSeq(toSink, k + 1, Len(toSink))
    /\ UNCHANGED <<flagVars, srcClosed, peerWrites, srcVars>>

(* after a failed write the rest of the payload is read and dropped *)
SinkDrain ==
    /\ role \in {"sink", "pipe", "resink"}
    /\ sinkPc = "drain"
    /\ IF toSink = <<>> THEN srcClosed ELSE TRUE
    /\ LET k == Min(Len(toSink), sf.drain)
       IN  /\ \E flt \in Faults({"truncate", "sync", "chmod", "utimes"}) :
                SetSink(sinkFileDrain(SinkWorld, k, toSink = <<>>, flt), flt)
           /\ toSink' = SubSeq(toSink, k + 1, Len(toSink))
    /\ UNCHANGED <<flagVars, srcClosed, peerWrites, srcVars>>

(* sinkFile reads the peer's trailer with ack and answers *)
SinkTrailer ==
    /\ role \in {"sink", "pipe", "resink"}
    /\ sinkPc = "trailer"
    /\ LET a == ack(toSink, srcClosed)
       IN  /\ a.ready
           /\ SetSink(sinkFileLeave(SinkWorld, a.err), "none")
           /\ toSink' = a.rest
    /\ UNCHANGED <<flagVars, srcClosed, peerWrites, srcVars>>

(************************* a scripted peer of the sink *********************)
(* It writes when the sink's pending read cannot return: a line or a lone   *)
(* byte while the sink reads frames, payload bytes while it copies or       *)
(* drains, an answer or a lone byte while it reads the trailer.  It may     *)
(* close its sending end; it never stops reading.                           *)
PeerLines ==
    { <<"C", "0644", "0", "a", "LF">>,
      <<"C", "0644", FmtDec(MaxSize), "a", "LF">>,
      <<"C", "0644", "0", "d/x", "LF">>,
      <<"D", "0555", "0", "d", "LF">>,
      <<"D", "0755", "0", "..", "LF">>,
      <<"E", "LF">>,
      <<"T", "5", "0", "7", "0", "LF">>,
      <<"SOH", "oops", "LF">>,
      <<"STX", "broken", "LF">>,
      <<"Q", "banner", "LF">> }

PeerTrailers ==
    { <<"NUL">>, <<"SOH", "oops", "LF">>, <<"STX", "broken", "LF">>, <<"Q", "banner", "LF">> }

PeerUnits ==
    CASE sinkPc = "loop" -> PeerLines \cup {<<"x">>}
      [] sinkPc = "trailer" -> PeerTrailers \cup {<<"x">>}
      [] OTHER -> {<<"x">>, [i \in 1..MaxSize |-> "x"]}

(* the sink's pending read cannot return on what is in the pipe *)
SinkWaits ==
    CASE sinkPc = "loop" -> LFPos(toSink, 2) = 0
      [] sinkPc = "trailer" -> ~ack(toSink, FALSE).ready
      [] sinkPc \in {"copy", "drain"} -> toSink = <<>>
      [] OTHER -> FALSE

PeerSend ==
    /\ role = "sink"
    /\ peerWrites > 0
    /\ ~srcClosed
    /\ SinkWaits
    /\ \E u \in PeerUnits : toSink' = toSink \o u
    /\ peerWrites' = peerWrites - 1
    /\ UNCHANGED <<flagVars, toSource, srcClosed, sinkClosed, faults, sinkVars, srcVars>>

PeerClose ==
    /\ role = "sink"
    /\ ~srcClosed
    /\ SinkWaits
    /\ srcClosed' = TRUE
    /\ UNCHANGED <<flagVars, toSink, toSource, sinkClosed, faults, peerWrites,
                   sinkVars, srcVars>>

(******************************* source ************************************)
(* the source's filesystem: a node has the size Stat reports, the bytes a    *)
(* read of it yields (data), and for a directory its entries (kids).         *)
SrcNode(kind, perm, size, data, mtime, atime, kids) ==
    [kind |-> kind, perm |-> perm, size |-> size, data |-> data,
     mtime |-> mtime, atime |-> atime, kids |-> kids]

(* one level of the source's call stack: the loop of source over its paths   *)
(* (dir = <<>>), or the loop of a sendDir over the entries of dir: kids are  *)
(* the entries of the batch in hand, more those Readdir has not returned.    *)
SrcLevel(dir, kids, more) == [dir |-> dir, kids |-> kids, more |-> more, errs |-> <<>>]

NoCur == [path |-> <<>>, name |-> "", size |-> 0, cerr |-> NilErr]

Ev(e, a, n, err) == [e |-> e, a |-> a, n |-> n, err |-> err]

SrcWorld ==
    [pc |-> srcPc, stack |-> srcStack, cur |-> cur, ret |-> srcRet, log |-> srcLog,
     out |-> toSink, gone |-> role = "pipe" /\ sinkClosed, hit |-> FALSE]

Logged(w, ev) == [w EXCEPT !.log = Append(@, ev)]

(* a write of a line or of bytes, logged when it was made *)
SrcWrite(w, bytes, ev) ==
    LET r == WriteOut(w, bytes)
    IN  IF r.err.k # "nil" THEN r ELSE [w |-> Logged(r.w, ev), err |-> NilErr]

SrcTee(w, err) ==
    LET r == teeError(w, err)
    IN  IF r.err.k = "fatal" THEN r
        ELSE [w |-> Logged(r.w, Ev("tee", w.cur.name, Len(w.out) + 1, err)), err |-> r.err]

(* source has returned err *)
SrcHalt(w, err) == [w EXCEPT !.pc = "done", !.ret = err, !.stack = <<>>, !.cur = NoCur]

(* a faulty variant: the callers of send go on after a fatal error as after a soft one *)
srcReturnGoesOn(w, err) ==
    [Logged(w, Ev("ret", w.cur.name, Len(w.stack), err))
        EXCEPT !.pc = "next", !.cur = NoCur,
               !.stack[Len(w.stack)].errs = AppendErr(@, err)]

(* a faulty variant: the callers of send return at the first error of any kind *)
srcReturnStopsAtSoft(w, err) ==
    IF err.k # "nil"
    THEN SrcHalt(Logged(w, Ev("ret", w.cur.name, Len(w.stack), err)), err)
    ELSE [Logged(w, Ev("ret", w.cur.name, Len(w.stack), err))
            EXCEPT !.pc = "next", !.cur = NoCur]

(* send has returned err to the loop that called it: source or sendDir *)
srcReturn(w, err) ==
    LET wl == Logged(w, Ev("ret", w.cur.name, Len(w.stack), err))
    IN  IF isFatal(err) THEN SrcHalt(wl, err)
        ELSE [wl EXCEPT !.pc = "next", !.cur = NoCur,
                        !.stack[Len(w.stack)].errs = AppendErr(@, err)]

(* sendDir has returned err to send, and send to its caller *)
sendDirReturn(w, err) ==
    srcReturn([w EXCEPT !.stack = SubSeq(@, 1, Len(@) - 1)], err)

TLine(node) == <<"T", FmtDec(node.mtime), "0", FmtDec(node.atime), "0", "LF">>
CLine(node, name) ==
    <<"C", FmtOct4(toPosixPerm(node.perm)), FmtDec(node.size), name, "LF">>
DLine(node, name) == <<"D", FmtOct4(toPosixPerm(node.perm)), "0", name, "LF">>

(* send and sendDir: the C or D line, after sendAttr if there was one *)
sendHeader(w) ==
    LET node == tree.fs[w.cur.path]
        isDir == node.kind = "dir"
        r == SrcWrite(w, IF isDir THEN DLine(node, w.cur.name) ELSE CLine(node, w.cur.name),
                      Ev(IF isDir THEN "D" ELSE "C", w.cur.name, node.size, NilErr))
    IN  IF r.err.k # "nil" THEN srcReturn(r.w, r.err)
        ELSE [r.w EXCEPT !.pc = IF isDir THEN "ackD" ELSE "ackC"]

(* a faulty variant: send and sendDir without their T line *)
sendAttrSkipped(w) == sendHeader(w)

(* sendAttr, to its read of the answer *)
sendAttr(w) ==
    LET r == SrcWrite(w, TLine(tree.fs[w.cur.path]), Ev("T", w.cur.name, 0, NilErr))
    IN  IF r.err.k # "nil" THEN srcReturn(r.w, r.err)
        ELSE [r.w EXCEPT !.pc = "ackT"]

(* send(name), to its first read of an answer or to its return *)
send(w, path, flt) ==
    LET name == path[Len(path)]
        w0 == Logged([w EXCEPT !.cur = [NoCur EXCEPT !.path = path, !.name = name]],
                     Ev("send", name, Len(w.stack), NilErr))
    IN  IF flt = "open" \/ ~Exists(tree.fs, path)
        THEN LET r == SrcTee(IF flt = "open" THEN Hit(w0) ELSE w0, SoftErr(<<"open failed">>))
             IN  srcReturn(r.w, r.err)
        ELSE IF flt = "fstat"
        THEN LET r == SrcTee(Hit(w0), SoftErr(<<"stat failed">>)) IN srcReturn(r.w, r.err)
        ELSE
        LET node == tree.fs[path]
            w1 == [w0 EXCEPT !.cur.size = node.size]
        IN  IF node.kind = "dir" /\ ~iamRecursive
            THEN LET r == SrcTee(w1, SoftErr(<<name, ": is a directory">>))
                 IN  srcReturn(r.w, r.err)
            ELSE IF node.kind \notin {"dir", "file"}
            THEN LET r == SrcTee(w1, SoftErr(<<name, ": not a regular file">>))
                 IN  srcReturn(r.w, r.err)
            ELSE IF preserveAttrs THEN sendAttr(w1)
            ELSE sendHeader(w1)

(* the first n entries of a batch *)
Take(seq, n) == SubSeq(seq, 1, Min(n, Len(seq)))
Drop(seq, n) == SubSeq(seq, Min(n, Len(seq)) + 1, Len(seq))

(* the loops of source and sendDir, from one call of send to the next read   *)
(* of an answer: the next entry is sent; or Readdir is called again; or the  *)
(* loop ends (source returns; sendDir writes E)                              *)
sendNext(w, flt) ==
    LET lv == w.stack[Len(w.stack)]
        top == Len(w.stack)
    IN  IF lv.kids # <<>>
        THEN send([w EXCEPT !.stack[top].kids = Tail(@)], Join(lv.dir, Head(lv.kids)), flt)
        ELSE IF top = 1
        THEN SrcHalt(w, AccOrNil(lv.errs))
        ELSE IF flt = "readdir"
        THEN LET r == SrcTee(Hit([w EXCEPT !.cur.name = lv.dir[Len(lv.dir)]]),
                             SoftErr(<<"readdir failed">>))
             IN  sendDirReturn(r.w, r.err)
        ELSE IF lv.more # <<>>
        THEN [w EXCEPT !.stack[top].kids = Take(lv.more, DirScanBatchSize),
                       !.stack[top].more = Drop(lv.more, DirScanBatchSize)]
        ELSE LET r == SrcWrite([w EXCEPT !.cur.name = lv.dir[Len(lv.dir)]],
                               <<"E", "LF">>, Ev("E", lv.dir[Len(lv.dir)], 0, NilErr))
             IN  IF r.err.k # "nil" THEN sendDirReturn(r.w, r.err)
                 ELSE [r.w EXCEPT !.pc = "ackE"]

(* a faulty variant: the trailer is written and send returns without reading an answer *)
sendTrailerNoAck(w) ==
    LET r == SrcWrite(w, <<"NUL">>, Ev("Z", w.cur.name, 0, NilErr))
    IN  srcReturn(r.w, r.err)

(* send: the zero byte after the payload, to the read of its answer *)
sendTrailer(w) ==
    LET r == SrcWrite(w, <<"NUL">>, Ev("Z", w.cur.name, 0, NilErr))
    IN  IF r.err.k # "nil" THEN srcReturn(r.w, r.err)
        ELSE [r.w EXCEPT !.pc = "ackZ"]

Zeros(n) == [i \in 1..n |-> "NUL"]

(* send: io.Copy(out, f) after the C line's answer.  The file yields its     *)
(* data; with failed set the read fails after sent bytes; a write to a       *)
(* closed pipe fails with nothing written.  After a failed copy the stream   *)
(* is padded with size-sent zero bytes (none when that is not positive).     *)
sendCopy(w, sent, failed) ==
    LET node == tree.fs[w.cur.path]
        stuck == w.gone /\ sent > 0
        cerr == IF stuck THEN SoftErr(<<"EPIPE">>)
                ELSE IF failed THEN SoftErr(<<"read failed">>)
                ELSE NilErr
        done == IF stuck THEN 0 ELSE sent
        pad == IF cerr.k # "nil" /\ node.size > done THEN node.size - done ELSE 0
        bytes == SubSeq(node.data, 1, done) \o Zeros(pad)
        w0 == IF failed THEN Hit(w) ELSE w
        wr == Logged([w0 EXCEPT !.out = @ \o bytes, !.cur.cerr = cerr],
                     Ev("payload", w.cur.name, Len(bytes), NilErr))
    IN  IF cerr.k = "nil" THEN sendTrailer(wr)
        ELSE IF pad > 0 /\ w.gone THEN srcReturn(w0, FatalError(<<"EPIPE">>))
        ELSE [wr EXCEPT !.pc = "ackPad"]

(* sendDir: after the answer to E *)
sendDirEnd(w, ackErr) ==
    LET sendErrs == w.stack[Len(w.stack)].errs
    IN  sendDirReturn(w, IF isFatal(ackErr) THEN ackErr
                         ELSE IF Len(sendErrs) > 0 THEN AccError(sendErrs)
                         ELSE ackErr)

(* Main: the exit status after source or sink returned err *)
ExitStatus(err) == IF err.k # "nil" THEN 1 ELSE 0

(* usage: the usage text on stderr, PrintDefaults, env.Os.Exit(1) *)
usage == [usage |-> TRUE, ran |-> "none", status |-> 1]

(* Main: flags -f and -t, the number of paths, and the error that the side *)
(* it runs returns; the result is what was printed and run and the status  *)
Main(iamSource, iamSink, argc, err) ==
    LET validMode == (iamSource \/ iamSink) /\ ~(iamSource /\ iamSink)
        validArgc == (iamSource /\ argc > 0) \/ (iamSink /\ argc = 1)
    IN  IF ~validMode \/ ~validArgc THEN usage
        ELSE [usage |-> FALSE, ran |-> IF iamSource THEN "source" ELSE "sink",
              status |-> ExitStatus(err)]

(*************************** source: the steps *****************************)
SetSrc(w, flt) ==
    /\ flt = "none" \/ w.hit
    /\ srcPc' = w.pc
    /\ srcStack' = w.stack
    /\ cur' = w.cur
    /\ srcRet' = w.ret
    /\ srcLog' = w.log
    /\ toSink' = w.out
    /\ faults' = IF w.hit THEN faults - 1 ELSE faults
    /\ srcClosed' = IF w.pc = "done" THEN TRUE ELSE srcClosed

AckEv(a) == Ev("ack", IF toSource = <<>> THEN "EOF" ELSE Head(toSource),
               Len(toSink), a.err)

(* source waits for the sink's first answer *)
SourceStart ==
    /\ role \in {"source", "pipe"}
    /\ srcPc = "start"
    /\ LET a == ack(toSource, sinkClosed)
           w == Logged(SrcWorld, AckEv(a))
       IN  /\ a.ready
           /\ SetSrc(IF a.err.k # "nil" THEN SrcHalt(w, a.err)
                     ELSE [w EXCEPT !.pc = "next"], "none")
           /\ toSource' = a.rest
    /\ UNCHANGED <<flagVars, sinkClosed, peerWrites, sinkVars>>

(* the loop of source or of sendDir goes on with its next entry *)
SendNext ==
    /\ role \in {"source", "pipe"}
    /\ srcPc = "next"
    /\ \E flt \in Faults({"open", "fstat", "readdir"}) :
         SetSrc(sendNext(SrcWorld, flt), flt)
    /\ UNCHANGED <<flagVars, toSource, sinkClosed, peerWrites, sinkVars>>

(* sendAttr reads the answer to its T line *)
SendAttrAck ==
    /\ role \in {"source", "pipe"}
    /\ srcPc = "ackT"
    /\ LET a == ack(toSource, sinkClosed)
           w == Logged(SrcWorld, AckEv(a))
       IN  /\ a.ready
           /\ SetSrc(IF a.err.k # "nil" THEN srcReturn(w, a.err) ELSE sendHeader(w), "none")
           /\ toSource' = a.rest
    /\ UNCHANGED <<flagVars, sinkClosed, peerWrites, sinkVars>>

(* send reads the answer to its C line and copies the file *)
SendFileAck ==
    /\ role \in {"source", "pipe"}
    /\ srcPc = "ackC"
    /\ LET a == ack(toSource, sinkClosed)
           w == Logged(SrcWorld, AckEv(a))
           n == Len(tree.fs[cur.path].data)
       IN  /\ a.ready
           /\ IF a.err.k # "nil"
              THEN SetSrc(srcReturn(w, a.err), "none")
              ELSE \E flt \in Faults({"read"}) :
                     \E sent \in 0..n :
                       /\ flt = "none" => sent = n
                       /\ SetSrc(sendCopy(w, sent, flt = "read"), flt)
           /\ toSource' = a.rest
    /\ UNCHANGED <<flagVars, sinkClosed, peerWrites, sinkVars>>

(* send reads an answer after the padding of a failed copy *)
SendPadAck ==
    /\ role \in {"source", "pipe"}
    /\ srcPc = "ackPad"
    /\ LET a == ack(toSource, sinkClosed)
           w == Logged(SrcWorld, AckEv(a))
           r == SrcTee(w, cur.cerr)
       IN  /\ a.ready
           /\ SetSrc(IF a.err.k # "nil" THEN srcReturn(w, a.err)
                     ELSE srcReturn(r.w, r.err), "none")
           /\ toSource' = a.rest
    /\ UNCHANGED <<flagVars, sinkClosed, peerWrites, sinkVars>>

(* send reads the answer to its trailer and returns it *)
SendTrailerAck ==
    /\ role \in {"source", "pipe"}
    /\ srcPc = "ackZ"
    /\ LET a == ack(toSource, sinkClosed)
       IN  /\ a.ready
           /\ SetSrc(srcReturn(Logged(SrcWorld, AckEv(a)), a.err), "none")
           /\ toSource' = a.rest
    /\ UNCHANGED <<flagVars, sinkClosed, peerWrites, sinkVars>>

(* sendDir reads the answer to its D line and starts on the entries *)
SendDirAck ==
    /\ role \in {"source", "pipe"}
    /\ srcPc = "ackD"
    /\ LET a == ack(toSource, sinkClosed)
           w == Logged(SrcWorld, AckEv(a))
       IN  /\ a.ready
           /\ SetSrc(IF a.err.k # "nil" THEN srcReturn(w, a.err)
                     ELSE [w EXCEPT !.pc = "next",
                                    !.stack = Append(@, SrcLevel(cur.path, <<>>,
                                                        tree.fs[cur.path].kids))],
                     "none")
           /\ toSource' = a.rest
    /\ UNCHANGED <<flagVars, sinkClosed, peerWrites, sinkVars>>

(* sendDir reads the answer to its E line and returns *)
SendDirEndAck ==
    /\ role \in {"source", "pipe"}
    /\ srcPc = "ackE"
    /\ LET a == ack(toSource, sinkClosed)
       IN  /\ a.ready
           /\ SetSrc(sendDirEnd(Logged(SrcWorld, AckEv(a)), a.err), "none")
           /\ toSource' = a.rest
    /\ UNCHANGED <<flagVars, sinkClosed, peerWrites, sinkVars>>

(************************ a scripted peer of the source ********************)
(* It answers when the source waits for an answer, with any of the answers  *)
(* ack tells apart, or closes its sending end; it never stops reading.      *)
PeerAnswers == PeerTrailers

SourceWaits ==
    /\ srcPc \in {"start", "ackT", "ackC", "ackPad", "ackZ", "ackD", "ackE"}
    /\ toSource = <<>>
    /\ ~sinkClosed

PeerAnswer ==
    /\ role = "source"
    /\ SourceWaits
    /\ \E u \in PeerAnswers : toSource' = u
    /\ UNCHANGED <<flagVars, toSink, srcClosed, sinkClosed, faults, peerWrites,
                   sinkVars, srcVars>>

PeerHangup ==
    /\ role = "source"
    /\ SourceWaits
    /\ sinkClosed' = TRUE
    /\ UNCHANGED <<flagVars, toSink, toSource, srcClosed, faults, peerWrites,
                   sinkVars, srcVars>>

(***************************** the source's trees **************************)
FileA == SrcNode("file", 420, 2, <<"x", "y">>, 5, 7, <<>>)
FileB == SrcNode("file", ModeSetuid + 493, 1, <<"y">>, 3, 4, <<>>)

Trees ==
    { [paths |-> <<"a">>, fs |-> (<<"a">> :> FileA)],
      [paths |-> <<"d", "b">>,
       fs |-> (<<"d">> :> SrcNode("dir", 493, 0, <<>>, 6, 2, <<"a">>))
                @@ (<<"d", "a">> :> FileA) @@ (<<"b">> :> FileB)],
      [paths |-> <<"d">>,
       fs |-> (<<"d">> :> SrcNode("dir", 448, 0, <<>>, 6, 2, <<"e", "a">>))
                @@ (<<"d", "e">> :> SrcNode("dir", 493, 0, <<>>, 1, 1, <<>>))
                @@ (<<"d", "a">> :> FileA)],
      [paths |-> <<"m", "b">>, fs |-> (<<"b">> :> FileB)],
      [paths |-> <<"g">>, fs |-> (<<"g">> :> SrcNode("file", 420, 1, <<"x", "y">>, 5, 7, <<>>))],
      [paths |-> <<"g">>, fs |-> (<<"g">> :> SrcNode("file", 420, 2, <<"x">>, 5, 7, <<>>))] }

(****************************** sink alone *********************************)
NoTree == [paths |-> <<>>, fs |-> <<>>]
NoCalc == [fn |-> "none", in |-> <<>>, out |-> <<>>, done |-> FALSE]
NoReplay == [pass |-> 0, fed |-> <<>>, fs1 |-> <<>>]

EmptyDst == (<<>> :> Node("dir", 493, <<>>, 0, 0))
(* the content of a file that is there before the session: longer than any  *)
(* payload                                                                   *)
OldData == [i \in 1..(MaxSize + 1) |-> "y"]
(* the sink's target: an empty directory, a missing path, a directory       *)
(* holding a file, a regular file, a file that is neither regular nor a      *)
(* directory (a block device: it takes writes and keeps its size)            *)
DstStates ==
    { EmptyDst,
      <<>>,
      (<<"a">> :> Node("file", 384, OldData, 3, 3)) @@ EmptyDst,
      (<<>> :> Node("file", 384, OldData, 3, 3)),
      (<<>> :> Node("other", 432, OldData, 3, 3)) }

SourceIdle ==
    /\ tree = NoTree
    /\ srcPc = "idle"
    /\ srcStack = <<>>
    /\ cur = NoCur
    /\ srcRet = NilErr
    /\ srcLog = <<>>

SinkFresh ==
    /\ sinkPc = "start"
    /\ sinkStack = <<Level(<<>>, FALSE, 0, FALSE, NoTimes)>>
    /\ sf = NoFile
    /\ sinkRet = NilErr
    /\ sinkLog = <<>>

InitSink ==
    /\ role = "sink"
    /\ calc = NoCalc
    /\ replay = NoReplay
    /\ iamRecursive \in BOOLEAN
    /\ preserveAttrs \in BOOLEAN
    /\ targetDir \in BOOLEAN
    /\ fs \in DstStates
    /\ toSink = <<>>
    /\ toSource = <<>>
    /\ srcClosed = FALSE
    /\ sinkClosed = FALSE
    /\ faults = MaxFaults
    /\ peerWrites = MaxPeerWrites
    /\ SinkFresh
    /\ SourceIdle

NextSink == SinkStart \/ SinkFrame \/ SinkCopy \/ SinkDrain \/ SinkTrailer
                \/ PeerSend \/ PeerClose

SpecSink == InitSink /\ [][NextSink]_vars

(***************************** source alone ********************************)
SinkIdle ==
    /\ fs = <<>>
    /\ sinkPc = "idle"
    /\ sinkStack = <<>>
    /\ sf = NoFile
    /\ sinkRet = NilErr
    /\ sinkLog = <<>>

SourceFresh ==
    /\ tree \in Trees
    /\ srcPc = "start"
    /\ srcStack = <<SrcLevel(<<>>, tree.paths, <<>>)>>
    /\ cur = NoCur
    /\ srcRet = NilErr
    /\ srcLog = <<>>

InitSource ==
    /\ role = "source"
    /\ calc = NoCalc
    /\ replay = NoReplay
    /\ iamRecursive \in BOOLEAN
    /\ preserveAttrs \in BOOLEAN
    /\ targetDir = FALSE
    /\ toSink = <<>>
    /\ toSource = <<>>
    /\ srcClosed = FALSE
    /\ sinkClosed = FALSE
    /\ faults = MaxFaults
    /\ peerWrites = 0
    /\ SinkIdle
    /\ SourceFresh

NextSource == SourceStart \/ SendNext \/ SendAttrAck \/ SendFileAck \/ SendPadAck
                \/ SendTrailerAck \/ SendDirAck \/ SendDirEndAck
                \/ PeerAnswer \/ PeerHangup

SpecSource == InitSource /\ [][NextSource]_vars

(************************ source and sink over two pipes *******************)
InitPipe ==
    /\ role = "pipe"
    /\ calc = NoCalc
    /\ replay = NoReplay
    /\ iamRecursive \in BOOLEAN
    /\ preserveAttrs \in BOOLEAN
    /\ targetDir \in BOOLEAN
    /\ toSink = <<>>
    /\ toSource = <<>>
    /\ srcClosed = FALSE
    /\ sinkClosed = FALSE
    /\ fs = EmptyDst
    /\ faults \in {0, MaxFaults}
    /\ peerWrites = 0
    /\ SinkFresh
    /\ SourceFresh

(* SendPadAck is left out: after a failed copy the source has written the   *)
(* padding and waits for an answer, while the sink, having read the payload, *)
(* waits for the trailer byte; neither read returns.                         *)
NextPipe == SinkStart \/ SinkFrame \/ SinkCopy \/ SinkDrain \/ SinkTrailer
              \/ SourceStart \/ SendNext \/ SendAttrAck \/ SendFileAck
              \/ SendTrailerAck \/ SendDirAck \/ SendDirEndAck

SpecPipe == InitPipe /\ [][NextPipe]_vars

(************************* the same stream sunk twice **********************)
(* whole frames: a C line with its payload and trailer, D, E and T lines *)
Frames ==
    { <<"C", "0644", "0", "a", "LF", "NUL">>,
      <<"C", "0600", FmtDec(MaxSize), "a", "LF">> \o [i \in 1..MaxSize |-> "x"] \o <<"NUL">>,
      <<"C", "0644", "0", "d", "LF", "NUL">>,
      <<"C", "0444", "0", "b", "LF", "NUL">>,
      <<"D", "0555", "0", "d", "LF">>,
      <<"D", "0700", "0", "a", "LF">>,
      <<"E", "LF">>,
      <<"T", "5", "0", "7", "0", "LF">> }

(* first pass: the peer writes a frame when the sink waits for one *)
ResinkSend ==
    /\ role = "resink"
    /\ replay.pass = 1
    /\ peerWrites > 0
    /\ ~srcClosed
    /\ sinkPc = "loop" /\ SinkWaits
    /\ \E u \in Frames :
         /\ toSink' = toSink \o u
         /\ replay' = [replay EXCEPT !.fed = @ \o u]
    /\ peerWrites' = peerWrites - 1
    /\ UNCHANGED <<role, iamRecursive, preserveAttrs, targetDir, tree, calc, toSource,
                   srcClosed, sinkClosed, faults, sinkVars, srcVars>>

(* first pass: the stream ends *)
ResinkClose ==
    /\ role = "resink"
    /\ replay.pass = 1
    /\ ~srcClosed
    /\ SinkWaits
    /\ srcClosed' = TRUE
    /\ UNCHANGED <<flagVars, toSink, toSource, sinkClosed, faults, peerWrites,
                   sinkVars, srcVars>>

(* sink has returned: it is run again on what it left, with the same stream *)
ResinkAgain ==
    /\ role = "resink"
    /\ replay.pass = 1
    /\ sinkPc = "done"
    /\ replay' = [replay EXCEPT !.pass = 2, !.fs1 = fs]
    /\ toSink' = replay.fed
    /\ srcClosed' = TRUE
    /\ toSource' = <<>>
    /\ sinkClosed' = FALSE
    /\ sinkPc' = "start"
    /\ sinkStack' = <<Level(<<>>, FALSE, 0, FALSE, NoTimes)>>
    /\ sf' = NoFile
    /\ sinkRet' = NilErr
    /\ sinkLog' = <<>>
    /\ UNCHANGED <<role, iamRecursive, preserveAttrs, targetDir, tree, calc, fs, faults,
                   peerWrites, srcVars>>

InitResink ==
    /\ role = "resink"
    /\ calc = NoCalc
    /\ replay = [NoReplay EXCEPT !.pass = 1]
    /\ iamRecursive \in BOOLEAN
    /\ preserveAttrs \in BOOLEAN
    /\ targetDir \in BOOLEAN
    /\ toSink = <<>>
    /\ toSource = <<>>
    /\ srcClosed = FALSE
    /\ sinkClosed = FALSE
    /\ fs \in DstStates
    /\ faults = 0
    /\ peerWrites = MaxPeerWrites
    /\ SinkFresh
    /\ SourceIdle

(* no call fails here, so SinkDrain never has a failed write to follow *)
NextResink == SinkStart \/ SinkFrame \/ SinkCopy \/ SinkTrailer
                \/ ResinkSend \/ ResinkClose \/ ResinkAgain

SpecResink == InitResink /\ [][NextResink]_vars

(********************** functions called on their own *********************)
(* the modes toStdPerm is given: every value of four octal digits *)
PosixModes == 0..4095


(* error messages around the size that still fits a line, newlines at their  *)
(* start, at their end and where the clamp cuts                              *)
ErrLens == (0..2) \cup ((MaxErrLen - 6)..MaxErrLen)
ErrBreaks == SUBSET {1, MaxErrLen - 6, MaxErrLen - 4, MaxErrLen}
ErrMsg(n, nl) == [i \in 1..n |-> IF i \in nl \/ (i = n /\ MaxErrLen \in nl) THEN "LF" ELSE "e"]
ErrMsgs == {ErrMsg(n, nl) : n \in ErrLens, nl \in ErrBreaks}

(* what source or sink may return to Main *)
MainErrs == {NilErr, AccError(<<SoftErr(<<"oops">>)>>), FatalError(<<"broken">>)}

(* what ack may find on its input, and whether the peer has closed it *)
AckBytes == {"NUL", "SOH", "STX", "Q", "oops", "LF"}
AckInputs == UNION {[1..n -> AckBytes] : n \in 0..MaxAckLen}

CalcInputs ==
    {[fn |-> "perm", in |-> <<x>>, out |-> <<>>, done |-> FALSE] : x \in PosixModes}
        \cup {[fn |-> "err", in |-> m, out |-> <<>>, done |-> FALSE] : m \in ErrMsgs}
        \cup {[fn |-> "main", in |-> <<f, t, n, e>>, out |-> <<>>, done |-> FALSE] :
                 f \in BOOLEAN, t \in BOOLEAN, n \in 0..MaxArgs, e \in MainErrs}
        \cup {[fn |-> "ack", in |-> <<a, c>>, out |-> <<>>, done |-> FALSE] :
                 a \in AckInputs, c \in BOOLEAN}

(* toPosixPerm(toStdPerm(x)) *)
CalcPerm ==
    /\ role = "calc"
    /\ calc.fn = "perm" /\ ~calc.done
    /\ calc' = [calc EXCEPT !.out = <<toPosixPerm(toStdPerm(calc.in[1]))>>, !.done = TRUE]
    /\ UNCHANGED <<role, iamRecursive, preserveAttrs, targetDir, tree, replay, toSink,
                   toSource, srcClosed, sinkClosed, faults, peerWrites, sinkVars, srcVars>>

(* sendError on an open output *)
CalcErr ==
    /\ role = "calc"
    /\ calc.fn = "err" /\ ~calc.done
    /\ calc' = [calc EXCEPT
                  !.out = sendError([out |-> <<>>, gone |-> FALSE, hit |-> FALSE],
                                    SoftErr(calc.in)).w.out,
                  !.done = TRUE]
    /\ UNCHANGED <<role, iamRecursive, preserveAttrs, targetDir, tree, replay, toSink,
                   toSource, srcClosed, sinkClosed, faults, peerWrites, sinkVars, srcVars>>

(* one run of Main *)
CalcMain ==
    /\ role = "calc"
    /\ calc.fn = "main" /\ ~calc.done
    /\ calc' = [calc EXCEPT
                  !.out = <<Main(calc.in[1], calc.in[2], calc.in[3], calc.in[4])>>,
                  !.done = TRUE]
    /\ UNCHANGED <<role, iamRecursive, preserveAttrs, targetDir, tree, replay, toSink,
                   toSource, srcClosed, sinkClosed, faults, peerWrites, sinkVars, srcVars>>

(* one call of ack *)
CalcAck ==
    /\ role = "calc"
    /\ calc.fn = "ack" /\ ~calc.done
    /\ calc' = [calc EXCEPT !.out = <<ack(calc.in[1], calc.in[2])>>, !.done = TRUE]
    /\ UNCHANGED <<role, iamRecursive, preserveAttrs, targetDir, tree, replay, toSink,
                   toSource, srcClosed, sinkClosed, faults, peerWrites, sinkVars, srcVars>>

InitCalc ==
    /\ role = "calc"
    /\ calc \in CalcInputs
    /\ replay = NoReplay
    /\ iamRecursive = FALSE
    /\ preserveAttrs = FALSE
    /\ targetDir = FALSE
    /\ toSink = <<>>
    /\ toSource = <<>>
    /\ srcClosed = FALSE
    /\ sinkClosed = FALSE
    /\ faults = 0
    /\ peerWrites = 0
    /\ SinkIdle
    /\ SourceIdle

NextCalc == CalcPerm \/ CalcErr \/ CalcMain \/ CalcAck

SpecCalc == InitCalc /\ [][NextCalc]_vars

(***************************** properties **********************************)
LastFrame == sinkLog[Len(sinkLog)]
FrameTaken == Len(sinkLog') = Len(sinkLog) + 1
NewFrame == sinkLog'[Len(sinkLog')]
BadName(line) == Len(line) >= 3 /\ (line[3] = ".." \/ ContainsRune(line[3], "/"))
KnownPrefix == {"SOH", "STX", "E", "T", "D", "C"}

(* the source's tree holds only regular files and directories, every file    *)
(* yields as many bytes as Stat reports, and every path of the list exists   *)
HonestTree ==
    /\ \A p \in DOMAIN tree.fs :
         /\ tree.fs[p].kind \in {"dir", "file"}
         /\ tree.fs[p].kind = "file" => tree.fs[p].size = Len(tree.fs[p].data)
    /\ \A i \in DOMAIN tree.paths : <<tree.paths[i]>> \in DOMAIN tree.fs

SameTree ==
    /\ DOMAIN fs = DOMAIN tree.fs \cup {<<>>}
    /\ \A p \in DOMAIN tree.fs :
         /\ fs[p].kind = tree.fs[p].kind
         /\ tree.fs[p].kind = "file" => fs[p].data = tree.fs[p].data
         /\ preserveAttrs => /\ fs[p].perm = tree.fs[p].perm
                             /\ fs[p].mtime = tree.fs[p].mtime

(* C1: source -r piped into sink -r on an empty directory, with no failure   *)
(* of the filesystem, leaves at the destination a tree equal to the source's *)
(* tree: every file and directory under the same parent, with the same       *)
(* content, and under -p the same permission bits and the same mtime.        *)
C1_RoundTrip ==
    (/\ role = "pipe"
     /\ srcPc = "done"
     /\ sinkPc = "done"
     /\ iamRecursive
     /\ faults = MaxFaults
     /\ HonestTree) => SameTree

(* C2: the payload the source writes after the answer to a C line, padding   *)
(* included, has exactly the size the C line declared, whatever the file     *)
(* yields when it is copied.                                                 *)
C2_PayloadIsDeclaredSize ==
    \A i \in DOMAIN srcLog :
        srcLog[i].e = "payload"
            => (i > 2 /\ srcLog[i - 2].e = "C" /\ srcLog[i].n = srcLog[i - 2].n)

(* C11: with -d and a destination that is missing or not a directory, the   *)
(* first step of sink ends it with a fatal error (exit status 1); what it    *)
(* wrote to the peer is one error line and no \x00 before it; it read no     *)
(* frame and left the filesystem as it was.                                   *)
C11_TargetDirRequired ==
    [][(sinkPc = "start" /\ targetDir /\ ~IsDir(fs, <<>>))
          => (/\ sinkPc' = "done"
              /\ isFatal(sinkRet')
              /\ ExitStatus(sinkRet') = 1
              /\ toSource' = <<"SOH">> \o sinkRet'.m \o <<"LF">>
              /\ sinkLog' = <<>>
              /\ toSink' = toSink
              /\ fs' = fs)]_vars

C11_Witness ==
    /\ targetDir
    /\ sinkPc = "done"
    /\ IsRegular(fs, <<>>)
    /\ sinkRet = FatalError(<<"dst", ": is not a directory">>)
    /\ toSource = <<"SOH", "dst", ": is not a directory", "LF">>

(* C12: when sinkFile has finished with the file of a C frame declaring     *)
(* size N and Truncate did not fail, a regular destination, new or already  *)
(* there with more than N bytes, has exactly N bytes; a destination that was *)
(* there and is not a regular file keeps its size (no call has failed).      *)
C12_TruncatedToDeclaredSize ==
    (sinkPc = "trailer" /\ SoftErr(<<"truncate failed">>) \notin Range(sf.pend))
        => /\ IsRegular(fs, sf.name) => Len(fs[sf.name].data) = sf.size
           /\ (sf.exists /\ ~IsRegular(fs, sf.name) /\ faults = MaxFaults)
                => Len(fs[sf.name].data) = Len(OldData)

C12_Witness ==
    /\ sinkPc = "trailer"
    /\ sf.name = <<>>
    /\ sf.exists /\ sf.regular
    /\ sf.size = MaxSize /\ sf.rd = MaxSize
    /\ sf.pend = <<>>
    /\ fs[<<>>].data = [i \in 1..MaxSize |-> "x"]

C12_WitnessDevice ==
    /\ sinkPc = "trailer"
    /\ sf.exists /\ ~sf.regular
    /\ sf.rd = MaxSize

(* C13: for every x of four octal digits, toPosixPerm(toStdPerm(x)) is x     *)
(* without its bit 01000: x itself when x has only the nine permission bits, *)
(* 04000 and 02000.                                                          *)
C13_ModeRoundTrip ==
    (calc.fn = "perm" /\ calc.done)
        => calc.out[1] = (IF (calc.in[1] \div 512) % 2 = 1 THEN calc.in[1] - 512
                                                             ELSE calc.in[1])

C13_Witness == calc.fn = "perm" /\ calc.done /\ calc.in = <<3565>> /\ calc.out = <<3565>>

C13_WitnessSticky == calc.fn = "perm" /\ calc.done /\ calc.in = <<1005>> /\ calc.out = <<493>>

(* names, parents and kinds, contents and sizes, permission bits *)
SameFiles(f, g) ==
    /\ DOMAIN f = DOMAIN g
    /\ \A p \in DOMAIN f :
         f[p].kind = g[p].kind /\ f[p].data = g[p].data /\ f[p].perm = g[p].perm

C15_ErrorLineClamped ==
    (calc.fn = "err" /\ calc.done)
        => LET m == calc.in
               line == calc.out
               body == SubSeq(line, 2, Len(line) - 1)
               nls == {j \in DOMAIN m : m[j] = "LF"}
               pos(i) == i + Cardinality({j \in nls : j < i})
               full == Len(m) + Cardinality(nls)
               fits == 1 + full + 1 + 1 <= MaxErrLen
               kept == IF fits THEN full ELSE MaxErrLen - 6
           IN  /\ Len(line) >= 2 /\ line[1] = "SOH" /\ line[Len(line)] = "LF"
               /\ \A i \in DOMAIN body : body[i] # "LF"
               /\ Len(line) + 1 <= MaxErrLen
               /\ Len(body) = IF fits THEN full ELSE MaxErrLen - 3
               /\ ~fits => SubSeq(body, MaxErrLen - 5, MaxErrLen - 3) = <<".", ".", ".">>
               /\ \A i \in DOMAIN m :
                    /\ pos(i) <= kept
                         => body[pos(i)] = (IF m[i] = "LF" THEN ";" ELSE m[i])
                    /\ (m[i] = "LF" /\ pos(i) + 1 <= kept) => body[pos(i) + 1] = " "

(* a message one byte too long for the line, with a newline at its start *)
C15_Witness ==
    /\ calc.fn = "err" /\ calc.done
    /\ Len(calc.in) = MaxErrLen - 3 /\ calc.in[1] = "LF" /\ calc.in[2] = "e"
    /\ Len(calc.out) = MaxErrLen - 1
    /\ SubSeq(calc.out, 1, 4) = <<"SOH", ";", " ", "e">>
    /\ SubSeq(calc.out, MaxErrLen - 4, MaxErrLen - 1) = <<".", ".", ".", "LF">>

(* the longest message that is written whole *)
C15_WitnessFits ==
    /\ calc.fn = "err" /\ calc.done
    /\ Len(calc.in) = MaxErrLen - 3
    /\ calc.out = <<"SOH">> \o calc.in \o <<"LF">>

(* C16: with neither or both of -f and -t, with -f and no path, or with -t  *)
(* and not exactly one path, Main prints the usage, runs neither side and  *)
(* exits 2; when the side it runs returns an error it exits 1, else 0.     *)
C16_ExitStatus ==
    (calc.fn = "main" /\ calc.done)
        => LET f == calc.in[1]
               t == calc.in[2]
               n == calc.in[3]
               e == calc.in[4]
               r == calc.out[1]
               misuse == (f = t) \/ (f /\ n = 0) \/ (t /\ n # 1)
           IN  IF misuse THEN r.usage /\ r.ran = "none" /\ r.status = 2
               ELSE /\ ~r.usage
                    /\ r.ran = (IF f THEN "source" ELSE "sink")
                    /\ r.status = (IF e = NilErr THEN 0 ELSE 1)

(* C17: the frame after an E read inside a directory is dispatched in that   *)
(* directory's parent; a C or D frame is dispatched at the depth given by the *)
(* D frames entered less the E frames read before it; an E frame read outside *)
(* every directory ends sink with the fatal "protocol error".                 *)
DirsBefore(i) == {j \in 1..(i - 1) : sinkLog[j].p = "D"}
EndsBefore(i) == {j \in 1..(i - 1) : sinkLog[j].p = "E"}
DirEntered(j) == sinkLog[j + 1].depth = sinkLog[j].depth + 1

C17_EndPopsOneLevel ==
    /\ \A i \in 1..(Len(sinkLog) - 1) :
         (sinkLog[i].p = "E" /\ sinkLog[i].depth > 1)
             => sinkLog[i + 1].path = Parent(sinkLog[i].path)
    /\ \A i \in 1..Len(sinkLog) :
         (/\ sinkLog[i].p \in {"C", "D"}
          /\ \A j \in DirsBefore(i) : DirEntered(j)
          /\ Cardinality(EndsBefore(i)) <= Cardinality(DirsBefore(i)))
             => Len(sinkLog[i].path) = Cardinality(DirsBefore(i)) - Cardinality(EndsBefore(i))
    /\ (Len(sinkLog) > 0 /\ LastFrame.p = "E" /\ LastFrame.depth = 1)
         => sinkPc = "done" /\ sinkRet = protocolErr

(* C18: when sink ends on an unexpected prefix byte, its fatal message is the *)
(* byte and its line if that was the first frame of the connection, and        *)
(* "protocol error" at any later frame, the first one in a directory included. *)
C18_FirstByteOfConnectionOnly ==
    (Len(sinkLog) > 0 /\ LastFrame.p \notin KnownPrefix)
        => /\ sinkPc = "done"
           /\ sinkRet = (IF Len(sinkLog) = 1 THEN FatalError(<<LastFrame.p>> \o LastFrame.line)
                                             ELSE protocolErr)

(* C19: ack takes one byte.  \x00: success, nothing more is taken.  \x01 and  *)
(* a line: a soft error with the line.  \x02 and a line: a fatal error with   *)
(* the line.  Another byte and a line: the fatal "protocol error".  The end of *)
(* the input at the byte or within the line: a fatal error.  On an open input  *)
(* without a whole answer the read does not return.                            *)
C19_AckClassification ==
    (calc.fn = "ack" /\ calc.done)
        => LET inp == calc.in[1]
               closed == calc.in[2]
               r == calc.out[1]
               ends == {n \in 2..Len(inp) : inp[n] = "LF" /\ \A j \in 2..(n - 1) : inp[j] # "LF"}
               whole == inp # <<>> /\ (inp[1] = "NUL" \/ ends # {})
           IN  /\ r.ready = (whole \/ closed)
               /\ (inp # <<>> /\ inp[1] = "NUL") => (r.err = NilErr /\ r.rest = Tail(inp))
               /\ \A n \in ends :
                    inp[1] # "NUL"
                        => /\ r.rest = SubSeq(inp, n + 1, Len(inp))
                           /\ inp[1] = "SOH"
                                => (r.err = SoftErr(SubSeq(inp, 2, n - 1)) /\ ~isFatal(r.err))
                           /\ inp[1] = "STX" => r.err = FatalError(SubSeq(inp, 2, n - 1))
                           /\ inp[1] \notin {"SOH", "STX"} => r.err = protocolErr
               /\ (closed /\ ~whole) => isFatal(r.err)

C19_Witness ==
    /\ calc.fn = "ack" /\ calc.done
    /\ calc.in[1] = <<"SOH", "oops", "LF">>
    /\ calc.out[1] = [ready |-> TRUE, err |-> SoftErr(<<"oops">>), rest |-> <<>>]

C19_WitnessRest ==
    /\ calc.fn = "ack" /\ calc.done
    /\ calc.in[1] = <<"NUL", "Q", "LF">>
    /\ calc.out[1] = [ready |-> TRUE, err |-> NilErr, rest |-> <<"Q", "LF">>]

(* C20: the end of the input where sink reads a prefix byte ends that          *)
(* invocation without a fatal error: the outermost one returns nil or the      *)
(* aggregate of the soft errors it recorded, an inner one returns to sinkDir   *)
(* and the caller meets the same end.  The end of the input within a header    *)
(* line, within a C payload, or where the trailer is read (at once, or after   *)
(* the short payload) makes sink return a fatal error.                         *)
NoLineEnd == \A i \in 2..Len(toSink) : toSink[i] # "LF"

C20_EndOfStream ==
    [][srcClosed
        => /\ (sinkPc = "loop" /\ toSink = <<>>)
                => IF Len(sinkStack) = 1
                   THEN sinkPc' = "done" /\ sinkRet' = AccOrNil(sinkStack[1].errs)
                   ELSE /\ sinkPc' = "loop"
                        /\ Len(sinkStack') = Len(sinkStack) - 1
                        /\ toSink' = <<>>
           /\ (sinkPc = "loop" /\ toSink # <<>> /\ NoLineEnd)
                => sinkPc' = "done" /\ isFatal(sinkRet')
           /\ (sinkPc \in {"copy", "drain"} /\ toSink = <<>> /\ sf.rd < sf.size)
                => sinkPc' = "trailer" /\ toSink' = <<>> /\ srcClosed'
           /\ (sinkPc = "trailer" /\ (toSink = <<>> \/ (toSink[1] # "NUL" /\ NoLineEnd)))
                => sinkPc' = "done" /\ isFatal(sinkRet')]_vars

(* the input ended after a \x01 line: sink returned that soft error *)
C20_Witness ==
    /\ role = "sink" /\ srcClosed /\ sinkPc = "done"
    /\ Len(sinkLog) = 1 /\ sinkLog[1].p = "SOH"
    /\ sinkRet = AccError(<<SoftErr(<<"oops">>)>>)

(* the input ended within a payload: sink returned a fatal error *)
C20_WitnessPayload ==
    /\ role = "sink" /\ srcClosed /\ sinkPc = "done"
    /\ Len(sinkLog) = 1 /\ sinkLog[1].p = "C" /\ sinkLog[1].line[2] = FmtDec(MaxSize)
    /\ peerWrites = MaxPeerWrites - 1
    /\ sinkRet = FatalError(<<"EOF">>)

(* C21: a C frame of size 0 is carried out in one step, no call failing.  A   *)
(* file the frame creates has the permission bits of its C line, with and     *)
(* without -p; a file that was there keeps its bits without -p and has the    *)
(* bits of the C line with -p.                                                *)
C21_FilePermissions ==
    [][(sinkPc = "loop" /\ sinkPc' = "trailer" /\ FrameTaken /\ NewFrame.p = "C"
            /\ faults' = faults)
          => LET name == sf'.name
                 declared == toStdPerm(ScanOct(NewFrame.line[1]))
             IN  /\ Exists(fs', name)
                 /\ fs'[name].perm = (IF ~Exists(fs, name) \/ preserveAttrs
                                     THEN declared ELSE fs[name].perm)]_vars

(* C22: a D frame taken with -r, no call failing.  A directory that was not   *)
(* there is made with the bits of the D line and owner rwx, and keeps owner    *)
(* rwx while sink runs in it; one that was there has the bits of the D line    *)
(* with -p and its own without; a name that is there and is no directory gives *)
(* an error line and changes nothing.  When the E frame of a directory that    *)
(* was made has been taken, the directory has the bits of its D line.          *)
C22_DirPermissions ==
    [][(FrameTaken /\ faults' = faults)
          => /\ (NewFrame.p = "D" /\ iamRecursive /\ parseSubj(NewFrame.line).err = NilErr)
                  => LET name == Join(NewFrame.path, NewFrame.line[3])
                         declared == toStdPerm(ScanOct(NewFrame.line[1]))
                     IN  /\ (~Exists(fs, name) /\ ParentOk(fs, name))
                              => /\ IsDir(fs', name)
                                 /\ fs'[name].perm = BitOr(declared, S_IRWXU)
                         /\ IsDir(fs, name)
                              => fs'[name].perm = (IF preserveAttrs THEN declared
                                                                   ELSE fs[name].perm)
                         /\ (Exists(fs, name) /\ ~IsDir(fs, name))
                              => /\ fs' = fs
                                 /\ Len(toSource') > Len(toSource)
                                 /\ toSource'[Len(toSource) + 1] = "SOH"
             /\ \A i \in 1..Len(sinkStack') :
                  sinkStack'[i].dreset
                      => BitAnd(fs'[sinkStack'[i].path].perm, S_IRWXU) = S_IRWXU
             /\ (NewFrame.p = "E" /\ NewFrame.depth > 1 /\ Top(SinkWorld).dreset)
                  => fs'[NewFrame.path].perm = Top(SinkWorld).dperm]_vars

(* C23: with -p every C and D line of the source comes right after the       *)
(* successful answer to a T line for the same entry, the T line has 0 in its   *)
(* two usec fields, and after another answer to the T line no C or D line      *)
(* follows; without -p the source writes no T line.                            *)
C23_TimesLineBeforeHeader ==
    /\ preserveAttrs
         => /\ \A i \in DOMAIN srcLog :
                 /\ srcLog[i].e \in {"C", "D"}
                      => /\ i > 2
                         /\ srcLog[i - 1].e = "ack" /\ srcLog[i - 1].err = NilErr
                         /\ srcLog[i - 2].e = "T" /\ srcLog[i - 2].a = srcLog[i].a
                 /\ (srcLog[i].e = "T" /\ i + 2 <= Len(srcLog) /\ srcLog[i + 1].err # NilErr)
                      => srcLog[i + 2].e \notin {"C", "D"}
            /\ \A k \in DOMAIN toSink :
                 (toSink[k] = "T" /\ k + 5 <= Len(toSink))
                     => toSink[k + 2] = "0" /\ toSink[k + 4] = "0" /\ toSink[k + 5] = "LF"
    /\ ~preserveAttrs
         => /\ \A i \in DOMAIN srcLog : srcLog[i].e # "T"
            /\ \A k \in DOMAIN toSink : toSink[k] # "T"

(* a C line after its T line was answered \x00, and a T line answered \x01 *)
C23_Witness ==
    /\ role = "source" /\ preserveAttrs /\ srcPc = "done"
    /\ \E i \in DOMAIN srcLog :
         /\ i + 2 <= Len(srcLog)
         /\ srcLog[i].e = "T" /\ srcLog[i + 1].err = NilErr /\ srcLog[i + 2].e = "C"
    /\ \E i \in DOMAIN srcLog :
         /\ i + 2 <= Len(srcLog)
         /\ srcLog[i].e = "T" /\ srcLog[i + 1].e = "ack" /\ srcLog[i + 1].err.k = "soft"
         /\ srcLog[i + 2].e = "ret"

(* C24: what sink writes for a C frame that parses.  In the step that takes  *)
(* the frame: one error line and sinkFile returns (nothing of the payload is  *)
(* read), or one \x00 and the payload is next.  While the payload is read:    *)
(* nothing.  In the step that reads the peer's trailer: nothing and the fatal  *)
(* error returned if the trailer is fatal, else one error line if an error is  *)
(* pending and one \x00 if none is.                                           *)
Written == SubSeq(toSource', Len(toSource) + 1, Len(toSource'))
OneErrorLine(b) ==
    /\ Len(b) >= 2 /\ b[1] = "SOH" /\ b[Len(b)] = "LF"
    /\ \A i \in 1..(Len(b) - 1) : b[i] # "LF"

C24_WitnessOpen ==
    /\ role = "sink" /\ sinkPc = "loop" /\ Len(sinkLog) = 1 /\ sinkLog[1].p = "C"
    /\ toSource = <<"NUL", "SOH", "open failed", "LF">>

(* C25: when source has returned without a fatal error, every D line that   *)
(* was answered \x00 has its E line: in the log the E lines never outnumber  *)
(* those D lines, and at the end there are as many.                          *)
DirsOpened(k) ==
    {i \in 1..k : /\ srcLog[i].e = "D"
                  /\ i < Len(srcLog) /\ srcLog[i + 1].e = "ack" /\ srcLog[i + 1].err = NilErr}
DirsClosed(k) == {i \in 1..k : srcLog[i].e = "E"}

C25_DirectoriesBalanced ==
    (srcPc = "done" /\ ~isFatal(srcRet))
        => /\ \A k \in DOMAIN srcLog :
                Cardinality(DirsClosed(k)) <= Cardinality(DirsOpened(k))
           /\ Cardinality(DirsClosed(Len(srcLog))) = Cardinality(DirsOpened(Len(srcLog)))

(* C26: source and sink joined by their two pipes, the source's files         *)
(* yielding as many bytes as Stat reports, are never both in a read that       *)
(* cannot return, with both pipes empty and open.                              *)
C26_NoMutualWait ==
    (role = "pipe" /\ HonestTree)
        => ~(/\ SourceWaits /\ SinkWaits
             /\ toSink = <<>> /\ toSource = <<>>
             /\ ~srcClosed /\ ~sinkClosed)

(* C3: when the write of a C payload of declared size N to the local file     *)
(* fails, sinkFile has consumed exactly N payload bytes from the input by the *)
(* time it reads the peer's trailer (the input has not ended).                *)
C3_DrainConsumesDeclared ==
    (/\ sinkPc = "trailer"
     /\ ~srcClosed
     /\ sf.pend # <<>>
     /\ sf.pend[1] = SoftErr(<<"write failed">>)) => sf.rd = sf.size

SrcLines == {"C", "D", "E", "T"}
AckPcs == {"ackT", "ackC", "ackPad", "ackZ", "ackD", "ackE"}

(* C4: what the source does next after writing a C, D, E or T line, or the   *)
(* zero byte after a payload, is one read of an answer, and what follows     *)
(* that read is not another read; a payload is written only right after the  *)
(* read that answered its C line returned success.                           *)
C4_AckDiscipline ==
    \A i \in DOMAIN srcLog :
        /\ srcLog[i].e \in SrcLines \cup {"Z"}
             => /\ i = Len(srcLog) => srcPc \in AckPcs
                /\ i < Len(srcLog) => srcLog[i + 1].e = "ack"
                /\ i + 1 < Len(srcLog) => srcLog[i + 2].e # "ack"
        /\ srcLog[i].e = "payload"
             => /\ i > 2
                /\ srcLog[i - 1].e = "ack"
                /\ srcLog[i - 1].err = NilErr
                /\ srcLog[i - 2].e = "C"

C4_Witness ==
    /\ srcPc = "done"
    /\ srcRet = NilErr
    /\ \A k \in SrcLines \cup {"Z", "payload"} : \E i \in DOMAIN srcLog : srcLog[i].e = k

(* C5: a D or C frame is handed times only when the frame received           *)
(* immediately before it was a T frame.                                       *)
C5_TimesOnlyFromPreviousFrame ==
    \A i \in DOMAIN sinkLog :
        sinkLog[i].t => (i > 1 /\ sinkLog[i - 1].p = "T")

(* C6: without -r, the step that takes a D frame ends sink with the fatal     *)
(* error "received directory without -r flag" and leaves the filesystem as    *)
(* it was.                                                                     *)
C6_DirWithoutRecursiveIsFatal ==
    [][(~iamRecursive /\ FrameTaken /\ NewFrame.p = "D")
          => (/\ sinkPc' = "done"
              /\ sinkRet' = FatalError(<<"received directory without -r flag">>)
              /\ fs' = fs)]_vars

C6_Witness ==
    /\ ~iamRecursive
    /\ sinkLog # <<>>
    /\ LastFrame.p = "D"
    /\ sinkPc = "done"
    /\ isFatal(sinkRet)

(* C7: the step that takes a C or D frame whose name is ".." or contains "/"  *)
(* ends sink with a fatal error and leaves the filesystem as it was.          *)
C7_BadNameIsFatalAndWritesNothing ==
    [][(FrameTaken /\ NewFrame.p \in {"C", "D"} /\ BadName(NewFrame.line))
          => (sinkPc' = "done" /\ isFatal(sinkRet') /\ fs' = fs)]_vars

C7_Witness ==
    /\ sinkLog # <<>>
    /\ LastFrame.p \in {"C", "D"}
    /\ BadName(LastFrame.line)
    /\ LastFrame.p = "D" => iamRecursive
    /\ sinkRet = FatalError(<<LastFrame.line[3], ": invalid name">>)
    /\ sinkPc = "done"

IsTopSend(ev) == ev.e = "send" /\ ev.n = 1
IsTopRet(ev) == ev.e = "ret" /\ ev.n = 1
TopSends == SelectSeq(srcLog, IsTopSend)
TopRets == SelectSeq(srcLog, IsTopRet)

(* a path of the list that send cannot open, or that is a directory without -r *)
Unsendable(name) ==
    \/ <<name>> \notin DOMAIN tree.fs
    \/ tree.fs[<<name>>].kind = "dir" /\ ~iamRecursive

(* C8: when source has returned without a fatal error after a successful     *)
(* handshake, send was called for every path of the list, in order; for a    *)
(* path that cannot be opened or is a directory without -r a line            *)
(* \x01<msg>\n was written and send returned <msg> as a soft error; and      *)
(* source returns the aggregate error, with exit status 1, exactly when      *)
(* some send returned an error.                                              *)
C8_SoftErrorsDoNotAbort ==
    (srcPc = "done" /\ ~isFatal(srcRet) /\ srcLog # <<>> /\ srcLog[1].err = NilErr)
        => /\ [i \in 1..Len(TopSends) |-> TopSends[i].a] = tree.paths
           /\ Len(TopRets) = Len(tree.paths)
           /\ \A i \in DOMAIN srcLog :
                (IsTopSend(srcLog[i]) /\ Unsendable(srcLog[i].a))
                    => /\ srcLog[i + 1].e = "tee"
                       /\ toSink[srcLog[i + 1].n] = "SOH"
                       /\ SubSeq(toSink, srcLog[i + 1].n + 1,
                                 LFPos(toSink, srcLog[i + 1].n) - 1) = srcLog[i + 1].err.m
                       /\ srcLog[i + 2].e = "ret"
                       /\ srcLog[i + 2].err = SoftErr(srcLog[i + 1].err.m)
           /\ (\E i \in DOMAIN TopRets : TopRets[i].err.k # "nil")
                <=> (srcRet.k = "acc" /\ ExitStatus(srcRet) = 1)
           /\ srcRet.k \in {"acc", "nil"}

C8_Witness ==
    /\ srcPc = "done"
    /\ srcRet.k = "acc"
    /\ Len(tree.paths) = 2
    /\ Unsendable(tree.paths[1])
    /\ \E i \in DOMAIN srcLog : srcLog[i].e = "C" /\ srcLog[i].a = tree.paths[2]
    /\ TopRets[2].err = NilErr

(* C9: once a read of an answer in the source finds \x02<msg>\n, a byte      *)
(* other than 0, 1, 2, or the end of the input, source has returned that     *)
(* read's fatal error and nothing was written after the read; for            *)
(* \x02<msg>\n the error's message is <msg>.                                 *)
C9_FatalAnswerAborts ==
    \A i \in DOMAIN srcLog :
        (srcLog[i].e = "ack" /\ srcLog[i].a \notin {"NUL", "SOH"})
            => /\ isFatal(srcLog[i].err)
               /\ srcPc = "done"
               /\ srcRet = srcLog[i].err
               /\ Len(toSink) = srcLog[i].n
               /\ srcLog[i].a = "STX" => srcRet = FatalError(<<"broken">>)

C9_Witness ==
    /\ srcPc = "done"
    /\ srcRet = FatalError(<<"broken">>)
    /\ Len(tree.paths) = 2
    /\ Len(TopSends) = 1
    /\ \E i \in DOMAIN srcLog :
         /\ srcLog[i].e = "ack" /\ srcLog[i].a = "STX"
         /\ \E j \in 1..(i - 1) : srcLog[j].e = "D"
         /\ \A j \in 1..(i - 1) : srcLog[j].e # "E"

====
